---- MODULE Spec2Model ----
(***************************************************************************)
(* GraphicsFrameEventParser (trace_processor/importers/proto): the buffer  *)
(* event recorder (CreateBufferEvent) and the phase state machine          *)
(* (CreatePhaseEvent), driven by ParseGraphicsFrameEvent, one event at a   *)
(* time.  The slice tracker, the track registry and the string writer are  *)
(* collaborators whose code lives outside this source unit.                *)
(***************************************************************************)
EXTENDS Integers, Sequences, FiniteSets, TLC

(* ------------------------------ bounds --------------------------------- *)
\* number of events of a session whose events arrive in timestamp order
MaxEvents == 3
\* number of events of a session whose timestamps arrive in any order
MaxTimedEvents == 4
\* buffer ids 1..NumBuffers
NumBuffers == 2
\* how many entries of LayerPool are used as layer names
NumLayers == 3

(* ------------------- GraphicsFrameEvent::BufferEventType ---------------- *)
UNSPECIFIED == 0
DEQUEUE == 1
QUEUE == 2
POST == 3
ACQUIRE_FENCE == 4
LATCH == 5
HWC_COMPOSITION_QUEUED == 6
FALLBACK_COMPOSITION == 7
PRESENT_FENCE == 8
RELEASE_FENCE == 9
MODIFY == 10
DETACH == 11
ATTACH == 12
CANCEL == 13

\* event_type_name_ids_, indexed by type + 1
event_type_name_ids_ ==
  << << "unspecified_event" >>, << "Dequeue" >>, << "Queue" >>, << "Post" >>,
     << "AcquireFenceSignaled" >>, << "Latch" >>, << "HWCCompositionQueued" >>,
     << "FallbackComposition" >>, << "PresentFenceSignaled" >>,
     << "ReleaseFenceSignaled" >>, << "Modify" >>, << "Detach" >>,
     << "Attach" >>, << "Cancel" >> >>

\* interned strings are modelled by their text, a tuple of text chunks
unknown_event_name_id_ == << "unknown_event" >>
no_layer_name_name_id_ == << "no_layer_name" >>
queue_lost_message_id_ ==
  << "Missing queue event. The slice is now a bit extended than it might actually have been" >>
\* layerName.substr(0, 10)
DisplayPrefixLen == 10
\* SliceTracker's duration of a slice that was begun and not yet ended
kPendingDuration == -1

(* ------------------------------ strings -------------------------------- *)
DigitChars == << "0", "1", "2", "3", "4", "5", "6", "7", "8", "9" >>

RECURSIVE AppendUnsignedInt(_)
\* base::StringWriter::AppendUnsignedInt: the decimal digits of n
AppendUnsignedInt(n) ==
  IF n < 10 THEN << DigitChars[n + 1] >>
  ELSE AppendUnsignedInt(n \div 10) \o << DigitChars[(n % 10) + 1] >>

\* base::StringWriter::AppendInt: sign, then the decimal digits
AppendInt(n) ==
  IF n < 0 THEN << "-" >> \o AppendUnsignedInt(0 - n) ELSE AppendUnsignedInt(n)

\* base::StringView::substr(0, n)
Substr(str, n) == SubSeq(str, 1, IF Len(str) < n THEN Len(str) ELSE n)

Max(a, b) == IF a > b THEN a ELSE b

AppPrefix == << "A", "P", "P", "_" >>
GpuPrefix == << "G", "P", "U", "_" >>
SfPrefix == << "S", "F", "_" >>
DisplayPrefix == << "D", "i", "s", "p", "l", "a", "y", "_" >>
BufferPrefix == << "B", "u", "f", "f", "e", "r", ":", " " >>

(* ------------------------------ inputs --------------------------------- *)
Buffers == 1 .. NumBuffers
TsPool == << 10, 50, 200 >>
Timestamps == { TsPool[i] : i \in 1 .. Len(TsPool) }

Layer_AAAAAAAAAA1 ==
  << "L", "a", "y", "e", "r", "_", "A", "A", "A", "A", "A", "A", "A", "A", "A", "A", "1" >>
Layer_AAAAAAAAAA2 ==
  << "L", "a", "y", "e", "r", "_", "A", "A", "A", "A", "A", "A", "A", "A", "A", "A", "2" >>
Layer_B == << "L", "a", "y", "e", "r", "_", "B" >>
LayerPool == << Layer_AAAAAAAAAA1, Layer_AAAAAAAAAA2, Layer_B, << >> >>
Layers == { LayerPool[i] : i \in 1 .. NumLayers }

(* ------------------------------- state --------------------------------- *)
VARIABLES
  graphics_frame_stats_map_,  \* buffer id -> event type -> last timestamp
  dequeue_slice_ids_,         \* buffer id -> id of the row of its last Dequeue
  dequeue_map_,               \* buffer id -> APP track with a tracked interval
  queue_map_,                 \* buffer id -> GPU track with a tracked interval
  latch_map_,                 \* buffer id -> SF track with a tracked interval
  display_map_,               \* layer name id -> Display track
  last_dequeued_,             \* buffer id -> timestamp of its last Dequeue
  last_acquired_,             \* buffer id -> timestamp of its last AcquireFence
  parser_errors,              \* stats::graphics_frame_event_parser_errors
  slice_table,                \* graphics_frame_slice_table: rows and intervals
  tracks,                     \* track registry: names, a track id is an index
  stacks,                     \* slice tracker: track id -> ids of open intervals
  begin_calls,                \* track id -> number of BeginFrameEvent calls
  end_calls,                  \* track id -> number of EndFrameEvent calls
  calls,                      \* slice tracker calls made for the last event
  ret,                        \* what CreateBufferEvent returned for the last event
  history                     \* the events parsed so far, oldest first

vars ==
  << graphics_frame_stats_map_, dequeue_slice_ids_, dequeue_map_, queue_map_,
     latch_map_, display_map_, last_dequeued_, last_acquired_, parser_errors,
     slice_table, tracks, stacks, begin_calls, end_calls, calls, ret, history >>

\* the parser and its collaborators as one record, threaded through the code
State ==
  [ graphics_frame_stats_map_ |-> graphics_frame_stats_map_,
    dequeue_slice_ids_ |-> dequeue_slice_ids_,
    dequeue_map_ |-> dequeue_map_,
    queue_map_ |-> queue_map_,
    latch_map_ |-> latch_map_,
    display_map_ |-> display_map_,
    last_dequeued_ |-> last_dequeued_,
    last_acquired_ |-> last_acquired_,
    parser_errors |-> parser_errors,
    slice_table |-> slice_table,
    tracks |-> tracks,
    stacks |-> stacks,
    begin_calls |-> begin_calls,
    end_calls |-> end_calls,
    calls |-> << >>,
    ret |-> ret,
    event_no |-> Len(history) + 1,
    opt_slice_id |-> 0,
    track_id |-> 0,
    start_slice |-> TRUE ]

EmptyMap == [ k \in {} |-> 0 ]
\* m[k] = v of a std::map / std::unordered_map
MapSet(m, k, v) == [ x \in (DOMAIN m) \cup {k} |-> IF x = k THEN v ELSE m[x] ]
\* m.erase(it)
MapErase(m, k) == [ x \in (DOMAIN m) \ {k} |-> m[x] ]

(* ----------------------------- collaborators --------------------------- *)
\* TrackTracker::InternGpuTrack: one id per distinct name (the scope is fixed)
InternGpuTrack(S, name) ==
  IF \E i \in 1 .. Len(S.tracks) : S.tracks[i] = name
  THEN [ S EXCEPT !.track_id = CHOOSE i \in 1 .. Len(S.tracks) : S.tracks[i] = name ]
  ELSE [ S EXCEPT !.tracks = Append(@, name),
                  !.stacks = Append(@, << >>),
                  !.begin_calls = Append(@, 0),
                  !.end_calls = Append(@, 0),
                  !.track_id = Len(S.tracks) + 1 ]

\* SliceTracker::ScopedFrameEvent: appends the row, returns its id in opt_slice_id
ScopedFrameEvent(S, row) ==
  [ S EXCEPT !.slice_table = Append(@, [ row EXCEPT !.id = Len(S.slice_table) + 1, !.event_no = S.event_no ]),
             !.opt_slice_id = Len(S.slice_table) + 1 ]

\* SliceTracker::BeginFrameEvent: appends an interval with a pending duration
\* and makes it the innermost open interval of its track
BeginFrameEvent(S, slice) ==
  LET id == Len(S.slice_table) + 1 IN
  [ S EXCEPT !.slice_table = Append(@, [ slice EXCEPT !.id = id, !.dur = kPendingDuration,
                                                       !.event_no = S.event_no ]),
             !.stacks[slice.track_id] = Append(@, id),
             !.begin_calls[slice.track_id] = @ + 1,
             !.calls = Append(@, [ op |-> "Begin", track_id |-> slice.track_id,
                                   ts |-> slice.ts, id |-> id ]) ]

\* SliceTracker::EndFrameEvent: ends the innermost open interval of the track
\* and returns its id; returns none (0) when nothing is open on the track
EndFrameEvent(S, timestamp, track_id, args) ==
  LET stack == S.stacks[track_id] IN
  IF stack = << >>
  THEN [ S EXCEPT !.end_calls[track_id] = @ + 1,
                  !.opt_slice_id = 0,
                  !.calls = Append(@, [ op |-> "End", track_id |-> track_id,
                                        ts |-> timestamp, id |-> 0 ]) ]
  ELSE LET id == stack[Len(stack)] IN
       [ S EXCEPT !.stacks[track_id] = SubSeq(stack, 1, Len(stack) - 1),
                  !.slice_table[id].dur = timestamp - S.slice_table[id].ts,
                  !.slice_table[id].args = @ \o args,
                  !.end_calls[track_id] = @ + 1,
                  !.opt_slice_id = id,
                  !.calls = Append(@, [ op |-> "End", track_id |-> track_id,
                                        ts |-> timestamp, id |-> id ]) ]

\* tables::GraphicsFrameSliceTable::Row with its defaults; kind tells a row of
\* ScopedFrameEvent from an interval of BeginFrameEvent, event_no is the
\* position in the session of the event that made it
EmptyRow ==
  [ id |-> 0, event_no |-> 0, kind |-> "row", ts |-> 0, track_id |-> 0, name |-> << >>, dur |-> 0,
    frame_number |-> 0, layer_name |-> << >>, has_latencies |-> FALSE,
    queue_to_acquire_time |-> 0, acquire_to_latch_time |-> 0,
    latch_to_present_time |-> 0, args |-> << >> ]

(* -------------------------- CreateBufferEvent -------------------------- *)
\* type < event_type_name_ids_.size(), after the cast of the ordinal to size_t
TypeInRange(type) == type >= 0 /\ type < Len(event_type_name_ids_)

\* event.has_layer_name() ? InternString(event.layer_name()) : no_layer_name
LayerNameId(event) ==
  IF event.has_layer_name THEN event.layer_name ELSE no_layer_name_name_id_

\* event.has_frame_number() ? event.frame_number() : 0
FrameNumber(event) == IF event.has_frame_number THEN event.frame_number ELSE 0

\* EventNameId that does not look at has_type
EventNameId_IgnoresHasType(event) ==
  IF TypeInRange(event.type)
  THEN event_type_name_ids_[event.type + 1]
  ELSE unknown_event_name_id_

\* the name of the row: the type's name, or unknown_event
EventNameId(event) ==
  IF event.has_type /\ TypeInRange(event.type)
  THEN event_type_name_ids_[event.type + 1]
  ELSE unknown_event_name_id_

\* lines 81-96: the last-seen table and the error counter
RecordEventType(S, timestamp, event) ==
  IF event.has_type /\ TypeInRange(event.type)
  THEN [ S EXCEPT !.graphics_frame_stats_map_[event.buffer_id][event.type] = timestamp ]
  ELSE [ S EXCEPT !.parser_errors = @ + 1 ]

\* QueueToAcquireTime without the clamp
QueueToAcquireTime_NoClamp(acquire_ts, queue_ts) == acquire_ts - queue_ts
\* AcquireToLatchTime with its operands exchanged
AcquireToLatchTime_Swapped(latch_ts, acquire_ts) == acquire_ts - latch_ts

\* LatchToPresentTime clamped the way QueueToAcquireTime is
LatchToPresentTime_Clamped(timestamp, latch_ts) == Max(timestamp - latch_ts, 0)

\* std::max(acquire_ts - queue_ts, 0)
QueueToAcquireTime(acquire_ts, queue_ts) == Max(acquire_ts - queue_ts, 0)
AcquireToLatchTime(latch_ts, acquire_ts) == latch_ts - acquire_ts
LatchToPresentTime(timestamp, latch_ts) == timestamp - latch_ts

\* lines 131-144: the derived latencies of a PRESENT_FENCE row
PresentFenceLatencies(S, timestamp, event, row) ==
  LET acquire_ts == S.graphics_frame_stats_map_[event.buffer_id][ACQUIRE_FENCE]
      queue_ts == S.graphics_frame_stats_map_[event.buffer_id][QUEUE]
      latch_ts == S.graphics_frame_stats_map_[event.buffer_id][LATCH]
  IN [ row EXCEPT !.has_latencies = TRUE,
                  !.queue_to_acquire_time = QueueToAcquireTime(acquire_ts, queue_ts),
                  !.acquire_to_latch_time = AcquireToLatchTime(latch_ts, acquire_ts),
                  !.latch_to_present_time = LatchToPresentTime(timestamp, latch_ts) ]

\* PatchDequeueRow that keeps the first Dequeue row it remembered (emplace)
PatchDequeueRow_KeepsFirst(S, event, slice_id) ==
  IF event.type = DEQUEUE
  THEN IF event.buffer_id \in DOMAIN S.dequeue_slice_ids_
       THEN S
       ELSE [ S EXCEPT !.dequeue_slice_ids_ = MapSet(@, event.buffer_id, slice_id) ]
  ELSE IF event.type = QUEUE /\ event.buffer_id \in DOMAIN S.dequeue_slice_ids_
  THEN [ S EXCEPT !.slice_table[S.dequeue_slice_ids_[event.buffer_id]].frame_number =
                     FrameNumber(event) ]
  ELSE S

\* lines 146-159: remember the Dequeue row; a Queue patches its frame number
PatchDequeueRow(S, event, slice_id) ==
  IF event.type = DEQUEUE
  THEN [ S EXCEPT !.dequeue_slice_ids_ = MapSet(@, event.buffer_id, slice_id) ]
  ELSE IF event.type = QUEUE /\ event.buffer_id \in DOMAIN S.dequeue_slice_ids_
  THEN [ S EXCEPT !.slice_table[S.dequeue_slice_ids_[event.buffer_id]].frame_number =
                     FrameNumber(event) ]
  ELSE S

\* RejectEvent that forgets IncrementStats
RejectEvent_NoCount(S) == [ S EXCEPT !.ret = FALSE ]

\* lines 75-78: count the error and fail
RejectEvent(S) == [ S EXCEPT !.parser_errors = @ + 1, !.ret = FALSE ]

CreateBufferEvent(S, timestamp, event) ==
  IF ~ event.has_buffer_id
  THEN RejectEvent(S)
  ELSE
    LET S1 == RecordEventType(S, timestamp, event)
        S2 == InternGpuTrack(S1, BufferPrefix \o AppendUnsignedInt(event.buffer_id))
        row0 == [ EmptyRow EXCEPT !.ts = timestamp,
                                  !.track_id = S2.track_id,
                                  !.name = EventNameId(event),
                                  !.dur = IF event.has_duration_ns THEN event.duration_ns ELSE 0,
                                  !.frame_number = FrameNumber(event),
                                  !.layer_name = LayerNameId(event) ]
        row == IF event.type = PRESENT_FENCE
               THEN PresentFenceLatencies(S2, timestamp, event, row0)
               ELSE row0
        S3 == ScopedFrameEvent(S2, row)
        S4 == PatchDequeueRow(S3, event, S3.opt_slice_id)
    IN [ S4 EXCEPT !.ret = TRUE ]

(* --------------------------- CreatePhaseEvent -------------------------- *)
\* PatchClosedAppSlice that leaves the APP track in dequeue_map_
PatchClosedAppSlice_KeepsEntry(S, event) ==
  IF S.opt_slice_id # 0
  THEN [ S EXCEPT !.slice_table[S.opt_slice_id].name = AppendUnsignedInt(FrameNumber(event)),
                  !.slice_table[S.opt_slice_id].frame_number = FrameNumber(event) ]
  ELSE S

\* lines 215-229 and 272-286: when the end call returned an interval, set its
\* name and frame number to the event's frame number and forget the APP track
PatchClosedAppSlice(S, event) ==
  IF S.opt_slice_id # 0
  THEN [ S EXCEPT !.slice_table[S.opt_slice_id].name = AppendUnsignedInt(FrameNumber(event)),
                  !.slice_table[S.opt_slice_id].frame_number = FrameNumber(event),
                  !.dequeue_map_ = MapErase(@, event.buffer_id) ]
  ELSE S

\* PhaseDequeue that keeps one last_dequeued_ for all buffers
PhaseDequeue_SharedGuard(S, timestamp, event) ==
  LET S1 == InternGpuTrack(S, AppPrefix \o AppendUnsignedInt(event.buffer_id)) IN
  [ S1 EXCEPT !.dequeue_map_ = MapSet(@, event.buffer_id, S1.track_id),
              !.last_dequeued_ = [ b \in DOMAIN @ |-> timestamp ] ]

\* case DEQUEUE
PhaseDequeue(S, timestamp, event) ==
  LET S1 == InternGpuTrack(S, AppPrefix \o AppendUnsignedInt(event.buffer_id)) IN
  [ S1 EXCEPT !.dequeue_map_ = MapSet(@, event.buffer_id, S1.track_id),
              !.last_dequeued_[event.buffer_id] = timestamp ]

\* lines 209-230: a Queue ends the interval of the APP track
QueueCloseApp(S, timestamp, event) ==
  IF event.buffer_id \in DOMAIN S.dequeue_map_
  THEN PatchClosedAppSlice(
         EndFrameEvent(S, timestamp, S.dequeue_map_[event.buffer_id], << >>), event)
  ELSE S

\* AcquiredBeforeQueue with >= in place of > in the comparison to the Dequeue
AcquiredBeforeQueue_NotStrict(S, timestamp, buffer_id) ==
  /\ S.last_acquired_[buffer_id] >= S.last_dequeued_[buffer_id]
  /\ S.last_acquired_[buffer_id] < timestamp

\* AcquiredBeforeQueue with the comparison to the Queue's timestamp reversed
AcquiredBeforeQueue_AfterQueue(S, timestamp, buffer_id) ==
  /\ S.last_acquired_[buffer_id] > S.last_dequeued_[buffer_id]
  /\ S.last_acquired_[buffer_id] > timestamp

\* lines 233-234: the AcquireFence was signaled before this Queue
AcquiredBeforeQueue(S, timestamp, buffer_id) ==
  /\ S.last_acquired_[buffer_id] > S.last_dequeued_[buffer_id]
  /\ S.last_acquired_[buffer_id] < timestamp

\* PhaseQueue that enters the GPU track in queue_map_ before the guard
PhaseQueue_EntryBeforeGuard(S, timestamp, event) ==
  LET S1 == QueueCloseApp(S, timestamp, event)
      S2 == InternGpuTrack(S1, GpuPrefix \o AppendUnsignedInt(event.buffer_id))
      S3 == [ S2 EXCEPT !.queue_map_ = MapSet(@, event.buffer_id, S2.track_id) ]
  IN IF AcquiredBeforeQueue(S1, timestamp, event.buffer_id)
     THEN [ S3 EXCEPT !.start_slice = FALSE ]
     ELSE S3

\* case QUEUE
PhaseQueue(S, timestamp, event) ==
  LET S1 == QueueCloseApp(S, timestamp, event) IN
  IF AcquiredBeforeQueue(S1, timestamp, event.buffer_id)
  THEN [ S1 EXCEPT !.start_slice = FALSE ]
  ELSE LET S2 == InternGpuTrack(S1, GpuPrefix \o AppendUnsignedInt(event.buffer_id)) IN
       [ S2 EXCEPT !.queue_map_ = MapSet(@, event.buffer_id, S2.track_id) ]

\* AcquireCloseGpu that leaves the GPU track in queue_map_
AcquireCloseGpu_KeepsEntry(S, timestamp, event) ==
  IF event.buffer_id \in DOMAIN S.queue_map_
  THEN EndFrameEvent(S, timestamp, S.queue_map_[event.buffer_id], << >>)
  ELSE S

\* lines 250-254: an AcquireFence ends the interval of the GPU track
AcquireCloseGpu(S, timestamp, event) ==
  IF event.buffer_id \in DOMAIN S.queue_map_
  THEN [ EndFrameEvent(S, timestamp, S.queue_map_[event.buffer_id], << >>)
           EXCEPT !.queue_map_ = MapErase(@, event.buffer_id) ]
  ELSE S

\* PhaseAcquireFence that forgets start_slice = false
PhaseAcquireFence_StartsSlice(S, timestamp, event) ==
  [ AcquireCloseGpu(S, timestamp, event)
      EXCEPT !.last_acquired_[event.buffer_id] = timestamp ]

\* case ACQUIRE_FENCE
PhaseAcquireFence(S, timestamp, event) ==
  [ AcquireCloseGpu(S, timestamp, event)
      EXCEPT !.last_acquired_[event.buffer_id] = timestamp,
             !.start_slice = FALSE ]

\* the args_callback of lines 264-267
QueueLostArgs == << [ key |-> << "Details" >>, value |-> queue_lost_message_id_ ] >>

\* LatchCloseApp that attaches no argument
LatchCloseApp_NoArgs(S, timestamp, event) ==
  IF event.buffer_id \in DOMAIN S.dequeue_map_
  THEN PatchClosedAppSlice(
         EndFrameEvent(S, timestamp, S.dequeue_map_[event.buffer_id], << >>), event)
  ELSE S

\* lines 262-287: a Latch ends an interval of the APP track that no Queue ended
LatchCloseApp(S, timestamp, event) ==
  IF event.buffer_id \in DOMAIN S.dequeue_map_
  THEN PatchClosedAppSlice(
         EndFrameEvent(S, timestamp, S.dequeue_map_[event.buffer_id], QueueLostArgs), event)
  ELSE S

\* case LATCH
PhaseLatch(S, timestamp, event) ==
  LET S1 == LatchCloseApp(S, timestamp, event)
      S2 == InternGpuTrack(S1, SfPrefix \o AppendUnsignedInt(event.buffer_id))
  IN [ S2 EXCEPT !.latch_map_ = MapSet(@, event.buffer_id, S2.track_id) ]

\* PresentCloseSf that leaves the SF track in latch_map_
PresentCloseSf_KeepsEntry(S, timestamp, event) ==
  IF event.buffer_id \in DOMAIN S.latch_map_
  THEN EndFrameEvent(S, timestamp, S.latch_map_[event.buffer_id], << >>)
  ELSE S

\* lines 301-305: a PresentFence ends the interval of the SF track
PresentCloseSf(S, timestamp, event) ==
  IF event.buffer_id \in DOMAIN S.latch_map_
  THEN [ EndFrameEvent(S, timestamp, S.latch_map_[event.buffer_id], << >>)
           EXCEPT !.latch_map_ = MapErase(@, event.buffer_id) ]
  ELSE S

\* lines 306-310: and the interval of the layer's Display track
PresentCloseDisplay(S, timestamp, event) ==
  IF LayerNameId(event) \in DOMAIN S.display_map_
  THEN [ EndFrameEvent(S, timestamp, S.display_map_[LayerNameId(event)], << >>)
           EXCEPT !.display_map_ = MapErase(@, LayerNameId(event)) ]
  ELSE S

\* DisplayTrackName that appends the whole layer name
DisplayTrackName_WholeName(event) == DisplayPrefix \o event.layer_name

\* lines 311-314: "Display_" and the first 10 characters of event.layer_name()
DisplayTrackName(event) == DisplayPrefix \o Substr(event.layer_name, DisplayPrefixLen)

\* case PRESENT_FENCE
PhasePresentFence(S, timestamp, event) ==
  LET S1 == PresentCloseSf(S, timestamp, event)
      S2 == PresentCloseDisplay(S1, timestamp, event)
      S3 == InternGpuTrack(S2, DisplayTrackName(event))
  IN [ S3 EXCEPT !.display_map_ = MapSet(@, LayerNameId(event), S3.track_id) ]

\* SliceName that always takes the timestamp
SliceName_AlwaysTimestamp(timestamp, frame_number) == AppendInt(timestamp)

\* SliceName that always takes the frame number
SliceName_AlwaysFrame(timestamp, frame_number) == AppendUnsignedInt(frame_number)

\* lines 340-345: the name of a new interval
SliceName(timestamp, frame_number) ==
  IF frame_number # 0 THEN AppendUnsignedInt(frame_number) ELSE AppendInt(timestamp)

\* lines 329-348: start the new phase if needed
StartSlice(S, timestamp, event) ==
  IF S.start_slice
  THEN BeginFrameEvent(S, [ EmptyRow EXCEPT !.kind = "interval",
                                            !.ts = timestamp,
                                            !.track_id = S.track_id,
                                            !.layer_name = LayerNameId(event),
                                            !.name = SliceName(timestamp, FrameNumber(event)),
                                            !.frame_number = FrameNumber(event) ])
  ELSE S

\* ClosePreviousPhase whose default case forgets start_slice = false
ClosePreviousPhase_DefaultStarts(S, timestamp, event) ==
  CASE event.type = DEQUEUE -> PhaseDequeue(S, timestamp, event)
    [] event.type = QUEUE -> PhaseQueue(S, timestamp, event)
    [] event.type = ACQUIRE_FENCE -> PhaseAcquireFence(S, timestamp, event)
    [] event.type = LATCH -> PhaseLatch(S, timestamp, event)
    [] event.type = PRESENT_FENCE -> PhasePresentFence(S, timestamp, event)
    [] OTHER -> S

\* the switch of lines 193-326
ClosePreviousPhase(S, timestamp, event) ==
  CASE event.type = DEQUEUE -> PhaseDequeue(S, timestamp, event)
    [] event.type = QUEUE -> PhaseQueue(S, timestamp, event)
    [] event.type = ACQUIRE_FENCE -> PhaseAcquireFence(S, timestamp, event)
    [] event.type = LATCH -> PhaseLatch(S, timestamp, event)
    [] event.type = PRESENT_FENCE -> PhasePresentFence(S, timestamp, event)
    [] OTHER -> [ S EXCEPT !.start_slice = FALSE ]

CreatePhaseEvent(S, timestamp, event) ==
  StartSlice(ClosePreviousPhase([ S EXCEPT !.start_slice = TRUE ], timestamp, event),
             timestamp, event)

(* ------------------------ ParseGraphicsFrameEvent ---------------------- *)
ParseResult(S, timestamp, event) ==
  IF ~ event.has_buffer_event
  THEN S
  ELSE LET S1 == CreateBufferEvent(S, timestamp, event) IN
       IF S1.ret THEN CreatePhaseEvent(S1, timestamp, event) ELSE S1

\* a decoded GraphicsFrameEvent.BufferEvent; an absent field reads as its default
MkEvent(has_buffer_id, buffer_id, has_type, type, has_frame_number, frame_number, has_layer_name, layer_name) ==
  [ has_buffer_event |-> TRUE,
    has_buffer_id |-> has_buffer_id,
    buffer_id |-> IF has_buffer_id THEN buffer_id ELSE 0,
    has_type |-> has_type,
    type |-> IF has_type THEN type ELSE 0,
    has_frame_number |-> has_frame_number,
    frame_number |-> IF has_frame_number THEN frame_number ELSE 0,
    has_layer_name |-> has_layer_name,
    layer_name |-> IF has_layer_name THEN layer_name ELSE << >>,
    has_duration_ns |-> FALSE,
    duration_ns |-> 0 ]

\* the frame number a producer attaches to an event of each type, when it does
FrameOf(type) == IF type = DEQUEUE THEN 7 ELSE 8

CoreTypes == { DEQUEUE, QUEUE, ACQUIRE_FENCE, LATCH, PRESENT_FENCE }
OtherTypes ==
  { UNSPECIFIED, POST, HWC_COMPOSITION_QUEUED, FALLBACK_COMPOSITION,
    RELEASE_FENCE, MODIFY, DETACH, ATTACH, CANCEL }
\* an ordinal past the last known type
UnknownType == Len(event_type_name_ids_)

\* the events of a session in timestamp order: buffer 1 with and without the
\* optional fields and with every type, the other buffers with their lifecycle
\* as a producer emits it (a Dequeue has no frame number yet)
Events ==
  { MkEvent(TRUE, 1, TRUE, t, hf, FrameOf(t), FALSE, << >>) :
      t \in { DEQUEUE, QUEUE }, hf \in BOOLEAN }
  \cup { MkEvent(TRUE, b, TRUE, t, t # DEQUEUE, FrameOf(t), FALSE, << >>) :
      b \in Buffers \ {1}, t \in CoreTypes }
  \cup { MkEvent(TRUE, 1, TRUE, t, t = LATCH, FrameOf(t), FALSE, << >>) :
      t \in { ACQUIRE_FENCE, LATCH, PRESENT_FENCE } }
  \cup { MkEvent(TRUE, 1, TRUE, PRESENT_FENCE, TRUE, FrameOf(PRESENT_FENCE), TRUE, l) :
      l \in Layers }
  \cup { MkEvent(TRUE, 1, TRUE, t, FALSE, 0, FALSE, << >>) : t \in OtherTypes }
  \cup { MkEvent(TRUE, 1, TRUE, UnknownType, FALSE, 0, FALSE, << >>),
         MkEvent(TRUE, 1, FALSE, 0, FALSE, 0, FALSE, << >>),
         MkEvent(FALSE, 0, TRUE, DEQUEUE, FALSE, 0, FALSE, << >>),
         [ MkEvent(FALSE, 0, FALSE, 0, FALSE, 0, FALSE, << >>)
             EXCEPT !.has_buffer_event = FALSE ] }

\* the lifecycle events of one buffer
TimedBuffers == { 2 }
TimedEvents ==
  { MkEvent(TRUE, b, TRUE, t, t # DEQUEUE, FrameOf(t), FALSE, << >>) :
      b \in TimedBuffers, t \in CoreTypes }

\* the timestamp of the next event of a trace sorted by time
Clock == TsPool[(Len(history) % Len(TsPool)) + 1]

Init ==
  /\ graphics_frame_stats_map_ =
       [ b \in Buffers |-> [ t \in 0 .. Len(event_type_name_ids_) - 1 |-> 0 ] ]
  /\ dequeue_slice_ids_ = EmptyMap
  /\ dequeue_map_ = EmptyMap
  /\ queue_map_ = EmptyMap
  /\ latch_map_ = EmptyMap
  /\ display_map_ = EmptyMap
  /\ last_dequeued_ = [ b \in Buffers |-> 0 ]
  /\ last_acquired_ = [ b \in Buffers |-> 0 ]
  /\ parser_errors = 0
  /\ slice_table = << >>
  /\ tracks = << >>
  /\ stacks = << >>
  /\ begin_calls = << >>
  /\ end_calls = << >>
  /\ calls = << >>
  /\ ret = TRUE
  /\ history = << >>

ParseGraphicsFrameEvent(timestamp, event) ==
  /\ \E S \in { ParseResult(State, timestamp, event) } :
     /\ graphics_frame_stats_map_' = S.graphics_frame_stats_map_
     /\ dequeue_slice_ids_' = S.dequeue_slice_ids_
     /\ dequeue_map_' = S.dequeue_map_
     /\ queue_map_' = S.queue_map_
     /\ latch_map_' = S.latch_map_
     /\ display_map_' = S.display_map_
     /\ last_dequeued_' = S.last_dequeued_
     /\ last_acquired_' = S.last_acquired_
     /\ parser_errors' = S.parser_errors
     /\ slice_table' = S.slice_table
     /\ tracks' = S.tracks
     /\ stacks' = S.stacks
     /\ begin_calls' = S.begin_calls
     /\ end_calls' = S.end_calls
     /\ calls' = S.calls
     /\ ret' = S.ret
  /\ history' = Append(history, [ timestamp |-> timestamp, event |-> event ])

\* a session whose events arrive in timestamp order
Next ==
  /\ Len(history) < MaxEvents
  /\ \E event \in Events : ParseGraphicsFrameEvent(Clock, event)

Spec == Init /\ [][Next]_vars

\* a session of lifecycle events whose timestamps arrive in any order
NextTimed ==
  /\ Len(history) < MaxTimedEvents
  /\ \E timestamp \in Timestamps, event \in TimedEvents :
       ParseGraphicsFrameEvent(timestamp, event)

SpecTimed == Init /\ [][NextTimed]_vars

(* ------------------------------ properties ----------------------------- *)
\* the event of the last step, and of the step being taken
LastEvent == history[Len(history)].event
LastTimestamp == history[Len(history)].timestamp
NewEvent == history'[Len(history')].event
NewTimestamp == history'[Len(history')].timestamp

\* event e is a buffer event of the given type for buffer b
IsEvent(e, type, b) ==
  /\ e.has_buffer_event /\ e.has_buffer_id /\ e.buffer_id = b
  /\ e.has_type /\ e.type = type

\* the id of the track with this name, 0 when the registry has no such track
TrackNamed(name) ==
  IF \E i \in 1 .. Len(tracks) : tracks[i] = name
  THEN CHOOSE i \in 1 .. Len(tracks) : tracks[i] = name
  ELSE 0

AppTrack(b) == TrackNamed(AppPrefix \o AppendUnsignedInt(b))
GpuTrack(b) == TrackNamed(GpuPrefix \o AppendUnsignedInt(b))
SfTrack(b) == TrackNamed(SfPrefix \o AppendUnsignedInt(b))

\* the ids of the intervals begun and not yet ended on a track
OpenOn(track) == IF track = 0 THEN << >> ELSE stacks[track]

\* the tables of the parser that C2 and C3 speak of
OpenTables == << dequeue_map_, queue_map_, latch_map_, display_map_ >>

\* C1: on every track, the EndFrameEvent calls issued so far never exceed the
\* BeginFrameEvent calls issued so far (no double close).
C1_NoDoubleClose ==
  \A i \in 1 .. Len(tracks) : end_calls[i] <= begin_calls[i]

\* C1 witness: Dequeue, Queue, Queue for buffer 1; the second Queue finds
\* nothing to close and the APP track has one begin and one end.
C1_Witness ==
  /\ Len(history) = 3
  /\ IsEvent(history[1].event, DEQUEUE, 1)
  /\ IsEvent(history[2].event, QUEUE, 1)
  /\ IsEvent(history[3].event, QUEUE, 1)
  /\ AppTrack(1) # 0
  /\ begin_calls[AppTrack(1)] = 1
  /\ end_calls[AppTrack(1)] = 1

\* C2: an event without bufferId makes CreateBufferEvent return false and
\* count one error; no row is emitted, no begin or end call is made and all
\* session state (last-seen table, open tables, guard timestamps, remembered
\* Dequeue rows) is unchanged.
C2_MissingBufferIdStep ==
  (history' # history /\ NewEvent.has_buffer_event /\ ~ NewEvent.has_buffer_id)
    => /\ ret' = FALSE
       /\ parser_errors' = parser_errors + 1
       /\ slice_table' = slice_table
       /\ calls' = << >>
       /\ begin_calls' = begin_calls /\ end_calls' = end_calls
       /\ stacks' = stacks /\ tracks' = tracks
       /\ graphics_frame_stats_map_' = graphics_frame_stats_map_
       /\ OpenTables' = OpenTables
       /\ last_dequeued_' = last_dequeued_ /\ last_acquired_' = last_acquired_
       /\ dequeue_slice_ids_' = dequeue_slice_ids_

C2_MissingBufferId == [][C2_MissingBufferIdStep]_vars

\* C2 witness: an event without bufferId was rejected while an APP interval
\* was tracked and a Dequeue row remembered.
C2_Witness ==
  /\ Len(history) >= 2
  /\ LastEvent.has_buffer_event /\ ~ LastEvent.has_buffer_id
  /\ ret = FALSE
  /\ parser_errors = 1
  /\ dequeue_map_ # EmptyMap
  /\ dequeue_slice_ids_ # EmptyMap

\* the event has a bufferId, and its eventType is absent or outside the range
UnknownOrMissingType(e) ==
  /\ e.has_buffer_event /\ e.has_buffer_id
  /\ (~ e.has_type \/ e.type < UNSPECIFIED \/ e.type > CANCEL)

\* C3: an event with a bufferId whose eventType is absent or out of range is
\* recorded (true), counts one error, emits exactly one row named
\* "unknown_event", leaves the last-seen table alone, and its phase
\* advancement issues no call and changes no open-interval table.
C3_UnknownTypeStep ==
  (history' # history /\ UnknownOrMissingType(NewEvent))
    => /\ ret' = TRUE
       /\ parser_errors' = parser_errors + 1
       /\ Len(slice_table') = Len(slice_table) + 1
       /\ SubSeq(slice_table', 1, Len(slice_table)) = slice_table
       /\ slice_table'[Len(slice_table')].kind = "row"
       /\ slice_table'[Len(slice_table')].name = << "unknown_event" >>
       /\ graphics_frame_stats_map_' = graphics_frame_stats_map_
       /\ calls' = << >>
       /\ OpenTables' = OpenTables

C3_UnknownType == [][C3_UnknownTypeStep]_vars

\* C3 witness: an event without eventType and one with an unknown ordinal were
\* both recorded while an APP interval was tracked.
C3_Witness ==
  /\ Len(history) = 3
  /\ ~ history[2].event.has_type /\ UnknownOrMissingType(history[2].event)
  /\ history[3].event.has_type /\ UnknownOrMissingType(history[3].event)
  /\ parser_errors = 2
  /\ ret = TRUE
  /\ dequeue_map_ # EmptyMap
  /\ slice_table[Len(slice_table)].name = unknown_event_name_id_

\* the number of keys of an open-interval table that name this track
Tracked(map, track) == Cardinality({ k \in DOMAIN map : map[k] = track })
TrackedOn(track) ==
  Tracked(dequeue_map_, track) + Tracked(queue_map_, track)
    + Tracked(latch_map_, track) + Tracked(display_map_, track)

\* the layer name ids seen so far, and the Display track of a layer name id
LayerIds == { slice_table[i].layer_name : i \in 1 .. Len(slice_table) }
IsDisplayTrack(track) ==
  /\ Len(tracks[track]) >= Len(DisplayPrefix)
  /\ SubSeq(tracks[track], 1, Len(DisplayPrefix)) = DisplayPrefix
OpenDisplayOf(layer) ==
  { id \in 1 .. Len(slice_table) :
      /\ slice_table[id].kind = "interval"
      /\ slice_table[id].layer_name = layer
      /\ IsDisplayTrack(slice_table[id].track_id)
      /\ \E k \in 1 .. Len(stacks[slice_table[id].track_id]) :
            stacks[slice_table[id].track_id][k] = id }

\* C4 as claimed: at most one interval begun and not yet ended per bufferId on
\* each of the App, GPU and SF tracks, and at most one open Display interval
\* per layerName.
C4_AtMostOneOpen ==
  /\ \A b \in Buffers :
       /\ Len(OpenOn(AppTrack(b))) <= 1
       /\ Len(OpenOn(GpuTrack(b))) <= 1
       /\ Len(OpenOn(SfTrack(b))) <= 1
  /\ \A l \in LayerIds : Cardinality(OpenDisplayOf(l)) <= 1

\* C4 amended: each open-interval table tracks at most one interval per key:
\* the entry of buffer b names b's own APP_/GPU_/SF_ track, so at most one
\* interval per buffer and phase is tracked, and on every track the tracked
\* intervals never outnumber the intervals begun and not yet ended.
C4_AtMostOneTracked ==
  /\ \A b \in DOMAIN dequeue_map_ : dequeue_map_[b] = AppTrack(b)
  /\ \A b \in DOMAIN queue_map_ : queue_map_[b] = GpuTrack(b)
  /\ \A b \in DOMAIN latch_map_ : latch_map_[b] = SfTrack(b)
  /\ \A l \in DOMAIN display_map_ : IsDisplayTrack(display_map_[l])
  /\ \A i \in 1 .. Len(tracks) :
       /\ TrackedOn(i) <= Len(stacks[i])
       /\ ~ IsDisplayTrack(i) => TrackedOn(i) <= 1

\* C4 witness: two Dequeues of buffer 1 left two intervals open on APP_1, one
\* of them tracked.
C4_Witness ==
  /\ Len(OpenOn(AppTrack(1))) = 2
  /\ 1 \in DOMAIN dequeue_map_
  /\ TrackedOn(AppTrack(1)) = 1

\* the timestamp of the last event of this type for buffer b among the first
\* n events, 0 when there is none
LastSeen(b, type, n) ==
  LET seen == { i \in 1 .. n : IsEvent(history[i].event, type, b) } IN
  IF seen = {} THEN 0
  ELSE history[CHOOSE i \in seen : \A j \in seen : j <= i].timestamp

\* the row emitted for the n-th event
RowOf(n) ==
  slice_table[CHOOSE i \in 1 .. Len(slice_table) :
                slice_table[i].kind = "row" /\ slice_table[i].event_no = n]
HasRow(n) ==
  \E i \in 1 .. Len(slice_table) :
    slice_table[i].kind = "row" /\ slice_table[i].event_no = n

\* C5: the row of every PresentFence at ts on buffer b carries
\* queueToAcquire = max(acquire - queue, 0), acquireToLatch = latch - acquire
\* and latchToPresent = ts - latch, from the timestamps of the last
\* AcquireFence, Queue and Latch processed for b before it (0 if none).
C5_PresentLatencies ==
  \A n \in 1 .. Len(history) : \A b \in Buffers :
    IsEvent(history[n].event, PRESENT_FENCE, b) =>
      LET acquire == LastSeen(b, ACQUIRE_FENCE, n - 1)
          queue == LastSeen(b, QUEUE, n - 1)
          latch == LastSeen(b, LATCH, n - 1)
      IN /\ HasRow(n)
         /\ RowOf(n).has_latencies
         /\ RowOf(n).queue_to_acquire_time =
              (IF acquire - queue > 0 THEN acquire - queue ELSE 0)
         /\ RowOf(n).acquire_to_latch_time = latch - acquire
         /\ RowOf(n).latch_to_present_time = history[n].timestamp - latch

\* C5 witness: a PresentFence after a Queue, an AcquireFence and a Latch of its
\* buffer, the AcquireFence stamped before the Queue, so that the clamp acts.
C5_Witness ==
  /\ Len(history) = 4
  /\ IsEvent(history[4].event, PRESENT_FENCE, 2)
  /\ LastSeen(2, LATCH, 3) > 0
  /\ LastSeen(2, ACQUIRE_FENCE, 3) > 0
  /\ LastSeen(2, ACQUIRE_FENCE, 3) < LastSeen(2, QUEUE, 3)
  /\ HasRow(4)
  /\ RowOf(4).queue_to_acquire_time = 0
  /\ RowOf(4).acquire_to_latch_time < 0

\* a fresh session fed Queue(2, 10), AcquireFence(2, 50), PresentFence(2, 200)
C6_Scenario ==
  /\ Len(history) = 3
  /\ IsEvent(history[1].event, QUEUE, 2) /\ history[1].timestamp = 10
  /\ IsEvent(history[2].event, ACQUIRE_FENCE, 2) /\ history[2].timestamp = 50
  /\ IsEvent(history[3].event, PRESENT_FENCE, 2) /\ history[3].timestamp = 200

\* C6 as claimed: the scenario yields queueToAcquire = 40, acquireToLatch = 150
\* and latchToPresent = 200.
C6_AcquireToLatch150 ==
  C6_Scenario =>
    /\ RowOf(3).queue_to_acquire_time = 40
    /\ RowOf(3).acquire_to_latch_time = 150
    /\ RowOf(3).latch_to_present_time = 200

\* C6 amended: the scenario yields queueToAcquire = 40, acquireToLatch = -50
\* (the Latch never seen counts as 0) and latchToPresent = 200.
C6_AcquireToLatchMinus50 ==
  C6_Scenario =>
    /\ RowOf(3).name = << "PresentFenceSignaled" >>
    /\ RowOf(3).queue_to_acquire_time = 40
    /\ RowOf(3).acquire_to_latch_time = -50
    /\ RowOf(3).latch_to_present_time = 200

\* C6 witness: the scenario has run and its PresentFence row is in the table.
C6_Witness ==
  /\ C6_Scenario
  /\ HasRow(3)
  /\ RowOf(3).has_latencies
  /\ RowOf(3).ts = 200

\* the interval begun by the n-th event
IntervalOf(n) ==
  slice_table[CHOOSE i \in 1 .. Len(slice_table) :
                slice_table[i].kind = "interval" /\ slice_table[i].event_no = n]
HasInterval(n) ==
  \E i \in 1 .. Len(slice_table) :
    slice_table[i].kind = "interval" /\ slice_table[i].event_no = n

\* the n-th event is a Dequeue of buffer b without a frame number
DequeueNoFrame(n, b) ==
  IsEvent(history[n].event, DEQUEUE, b) /\ ~ history[n].event.has_frame_number

\* the n-th event is a Queue of buffer b with a frame number
QueueWithFrame(n, b) ==
  IsEvent(history[n].event, QUEUE, b) /\ history[n].event.has_frame_number

\* a Dequeue without frame number that was just processed began an interval on
\* APP_b at its timestamp, named by the decimal form of the timestamp
DequeueOpensApp ==
  \A b \in Buffers :
    (Len(history) > 0 /\ DequeueNoFrame(Len(history), b)) =>
      /\ HasInterval(Len(history))
      /\ IntervalOf(Len(history)).track_id = AppTrack(b)
      /\ IntervalOf(Len(history)).ts = LastTimestamp
      /\ IntervalOf(Len(history)).name = AppendInt(LastTimestamp)
      /\ IntervalOf(Len(history)).dur = kPendingDuration

\* the Queue that was just processed as event j ended the interval of the
\* Dequeue i at its timestamp and patched its name and frame number
QueueClosed(i, j) ==
  /\ HasInterval(i)
  /\ IntervalOf(i).ts + IntervalOf(i).dur = history[j].timestamp
  /\ \A k \in 1 .. Len(stacks[IntervalOf(i).track_id]) :
       stacks[IntervalOf(i).track_id][k] # IntervalOf(i).id
  /\ IntervalOf(i).name = AppendUnsignedInt(history[j].event.frame_number)
  /\ IntervalOf(i).frame_number = history[j].event.frame_number

\* C7 as claimed: a Dequeue of b at t without frame number begins an APP_b
\* interval at t named by the decimal t, and the next Queue of b, at u with
\* frame number f, ends that interval at u and patches its name to the
\* decimal f and its frameNumber to f.
C7_NextQueueCloses ==
  /\ DequeueOpensApp
  /\ \A b \in Buffers : \A i \in 1 .. Len(history) :
       ( /\ i < Len(history)
         /\ DequeueNoFrame(i, b)
         /\ QueueWithFrame(Len(history), b)
         /\ \A k \in (i + 1) .. (Len(history) - 1) :
               ~ IsEvent(history[k].event, QUEUE, b) )
       => QueueClosed(i, Len(history))

\* C7 amended: the same, for the next Queue of b when no Dequeue and no Latch
\* of b was processed between the Dequeue and that Queue.
C7_NextQueueClosesTracked ==
  /\ DequeueOpensApp
  /\ \A b \in Buffers : \A i \in 1 .. Len(history) :
       ( /\ i < Len(history)
         /\ DequeueNoFrame(i, b)
         /\ QueueWithFrame(Len(history), b)
         /\ \A k \in (i + 1) .. (Len(history) - 1) :
               /\ ~ IsEvent(history[k].event, QUEUE, b)
               /\ ~ IsEvent(history[k].event, DEQUEUE, b)
               /\ ~ IsEvent(history[k].event, LATCH, b) )
       => QueueClosed(i, Len(history))

\* C7 witness: Dequeue of buffer 1 at 10 without frame number, an event of
\* another kind, then Queue of buffer 1 at 200 with frame number 8: the
\* interval begun at 10 has ended at 200 and is named "8".
C7_Witness ==
  /\ Len(history) = 3
  /\ DequeueNoFrame(1, 1)
  /\ QueueWithFrame(3, 1)
  /\ ~ IsEvent(history[2].event, QUEUE, 1)
  /\ HasInterval(1)
  /\ IntervalOf(1).ts = 10
  /\ IntervalOf(1).dur = 190
  /\ IntervalOf(1).name = << "8" >>
  /\ IntervalOf(1).frame_number = 8

\* the calls of the step being taken include an end call on this track at this
\* timestamp that ended an interval
EndedOn(track, timestamp) ==
  \E k \in 1 .. Len(calls') :
    /\ calls'[k].op = "End" /\ calls'[k].track_id = track
    /\ calls'[k].ts = timestamp /\ calls'[k].id # 0

\* the id of the innermost open interval of a track that has one
Innermost(track) == stacks[track][Len(stacks[track])]

\* the step being taken parses an event of this type for buffer b
Parses(type, b) == history' # history /\ IsEvent(NewEvent, type, b)

\* the Latch being processed ended the innermost open interval of APP_b at its
\* timestamp, with the "Details" argument attached
LatchEndsApp(b) ==
  /\ EndedOn(AppTrack(b), NewTimestamp)
  /\ slice_table'[Innermost(AppTrack(b))].dur =
       NewTimestamp - slice_table[Innermost(AppTrack(b))].ts
  /\ slice_table'[Innermost(AppTrack(b))].args =
       << [ key |-> << "Details" >>, value |-> queue_lost_message_id_ ] >>

\* C8 as claimed: a Latch of b processed while an App interval of b is open
\* ends that interval at its timestamp with the "Details" argument attached,
\* and after the Latch no App interval of b is open.
C8_LatchLeavesNoAppStep ==
  \A b \in Buffers :
    (Parses(LATCH, b) /\ OpenOn(AppTrack(b)) # << >>)
      => /\ LatchEndsApp(b)
         /\ stacks'[AppTrack(b)] = << >>

C8_LatchLeavesNoApp == [][C8_LatchLeavesNoAppStep]_vars

\* C8 amended: a Latch of b processed while the App table tracks an interval
\* of b ends the innermost open interval of APP_b at its timestamp with the
\* "Details" argument attached and erases the App entry of b; the intervals
\* that earlier Dequeues of b left open under it stay open, so none is left
\* open when only one was open.
C8_LatchClosesTrackedStep ==
  \A b \in Buffers :
    (Parses(LATCH, b) /\ b \in DOMAIN dequeue_map_)
      => /\ OpenOn(AppTrack(b)) # << >>
         /\ LatchEndsApp(b)
         /\ b \notin DOMAIN dequeue_map_'
         /\ stacks'[AppTrack(b)] =
              SubSeq(stacks[AppTrack(b)], 1, Len(stacks[AppTrack(b)]) - 1)

C8_LatchClosesTracked == [][C8_LatchClosesTrackedStep]_vars

\* C8 witness: Dequeue then Latch of buffer 1: the interval of the Dequeue is
\* ended by the Latch, carries the argument, and APP_1 has nothing open.
C8_Witness ==
  /\ Len(history) = 2
  /\ IsEvent(history[1].event, DEQUEUE, 1)
  /\ IsEvent(history[2].event, LATCH, 1)
  /\ HasInterval(1)
  /\ IntervalOf(1).dur = history[2].timestamp - history[1].timestamp
  /\ IntervalOf(1).args # << >>
  /\ OpenOn(AppTrack(1)) = << >>
  /\ 1 \notin DOMAIN dequeue_map_

\* no interval is begun by the step being taken
NoBegin == \A k \in 1 .. Len(calls') : calls'[k].op # "Begin"

\* C9: a Queue of b at ts, when the last AcquireFence of b is stamped after
\* the last Dequeue of b and before ts (0 standing for none), begins no GPU
\* interval and creates no GPU table entry, and still ends the App interval
\* that the App table tracks for b.
C9_OutOfOrderGuardStep ==
  \A b \in Buffers :
    ( /\ Parses(QUEUE, b)
      /\ LastSeen(b, ACQUIRE_FENCE, Len(history)) > LastSeen(b, DEQUEUE, Len(history))
      /\ LastSeen(b, ACQUIRE_FENCE, Len(history)) < NewTimestamp )
    => /\ NoBegin
       /\ queue_map_' = queue_map_
       /\ b \in DOMAIN dequeue_map_ =>
            /\ EndedOn(AppTrack(b), NewTimestamp)
            /\ b \notin DOMAIN dequeue_map_'
            /\ Len(stacks'[AppTrack(b)]) = Len(stacks[AppTrack(b)]) - 1

C9_OutOfOrderGuard == [][C9_OutOfOrderGuardStep]_vars

\* C9 witness: Dequeue at 10, AcquireFence at 50, Queue at 200 of buffer 2:
\* the Queue ended the App interval and no GPU track exists.
C9_Witness ==
  /\ Len(history) = 3
  /\ IsEvent(history[1].event, DEQUEUE, 2) /\ history[1].timestamp = 10
  /\ IsEvent(history[2].event, ACQUIRE_FENCE, 2) /\ history[2].timestamp = 50
  /\ IsEvent(history[3].event, QUEUE, 2) /\ history[3].timestamp = 200
  /\ GpuTrack(2) = 0
  /\ queue_map_ = EmptyMap
  /\ OpenOn(AppTrack(2)) = << >>
  /\ Len(calls) = 1 /\ calls[1].op = "End" /\ calls[1].id # 0

\* C10 as claimed: after a Latch of b is processed, no GPU interval of b is
\* open.
C10_LatchClosesGpu ==
  \A b \in Buffers :
    (Len(history) > 0 /\ IsEvent(LastEvent, LATCH, b)) => OpenOn(GpuTrack(b)) = << >>

\* C10 amended: a Latch of b issues no end call on GPU_b and leaves the GPU
\* table alone; it is the AcquireFence of b that ends the GPU interval tracked
\* for b, and after an AcquireFence of b the GPU table has no entry for b.
C10_AcquireClosesGpuStep ==
  \A b \in Buffers :
    /\ Parses(LATCH, b) =>
         /\ queue_map_' = queue_map_
         /\ GpuTrack(b) # 0 => stacks'[GpuTrack(b)] = stacks[GpuTrack(b)]
         /\ \A k \in 1 .. Len(calls') : calls'[k].track_id # GpuTrack(b)
    /\ Parses(ACQUIRE_FENCE, b) =>
         /\ b \notin DOMAIN queue_map_'
         /\ b \in DOMAIN queue_map_ =>
              /\ EndedOn(GpuTrack(b), NewTimestamp)
              /\ Len(stacks'[GpuTrack(b)]) = Len(stacks[GpuTrack(b)]) - 1

C10_AcquireClosesGpu == [][C10_AcquireClosesGpuStep]_vars

\* C10 witness: Queue, Latch, AcquireFence of buffer 1: the GPU interval of
\* the Queue outlived the Latch and was ended by the AcquireFence.
C10_Witness ==
  /\ Len(history) = 3
  /\ IsEvent(history[1].event, QUEUE, 1)
  /\ IsEvent(history[2].event, LATCH, 1)
  /\ IsEvent(history[3].event, ACQUIRE_FENCE, 1)
  /\ HasInterval(1)
  /\ IntervalOf(1).track_id = GpuTrack(1)
  /\ IntervalOf(1).dur = history[3].timestamp - history[1].timestamp
  /\ OpenOn(GpuTrack(1)) = << >>
  /\ 1 \notin DOMAIN queue_map_

\* no interval is ended by the step being taken
NoEnd == \A k \in 1 .. Len(calls') : calls'[k].op # "End"

\* C11 as claimed: processing an AcquireFence issues no BeginFrameEvent and no
\* EndFrameEvent call and leaves all four open-interval tables unchanged; it
\* only records lastAcquiredTs of its buffer.
C11_AcquireOnlyRecordsStep ==
  \A b \in Buffers :
    Parses(ACQUIRE_FENCE, b)
      => /\ NoBegin /\ NoEnd
         /\ OpenTables' = OpenTables
         /\ last_acquired_' = [ last_acquired_ EXCEPT ![b] = NewTimestamp ]

C11_AcquireOnlyRecords == [][C11_AcquireOnlyRecordsStep]_vars

\* C11 amended: processing an AcquireFence of b records lastAcquiredTs of b,
\* issues no BeginFrameEvent call and leaves the App, SF and Display tables
\* unchanged; when the GPU table tracks an interval of b it issues exactly one
\* EndFrameEvent call, on GPU_b at the event's timestamp, and erases the GPU
\* entry of b; otherwise it issues no call and leaves the GPU table unchanged.
C11_AcquireEndsTrackedGpuStep ==
  \A b \in Buffers :
    Parses(ACQUIRE_FENCE, b)
      => /\ NoBegin
         /\ last_acquired_' = [ last_acquired_ EXCEPT ![b] = NewTimestamp ]
         /\ last_dequeued_' = last_dequeued_
         /\ dequeue_map_' = dequeue_map_
         /\ latch_map_' = latch_map_
         /\ display_map_' = display_map_
         /\ IF b \in DOMAIN queue_map_
            THEN /\ Len(calls') = 1
                 /\ calls'[1] = [ op |-> "End", track_id |-> GpuTrack(b),
                                  ts |-> NewTimestamp, id |-> Innermost(GpuTrack(b)) ]
                 /\ queue_map_' = MapErase(queue_map_, b)
            ELSE /\ calls' = << >>
                 /\ queue_map_' = queue_map_

C11_AcquireEndsTrackedGpu == [][C11_AcquireEndsTrackedGpuStep]_vars

\* C11 witness: Queue then AcquireFence of buffer 1: the AcquireFence issued
\* one end call on GPU_1, emptied the GPU table and recorded its timestamp.
C11_Witness ==
  /\ Len(history) = 2
  /\ IsEvent(history[1].event, QUEUE, 1)
  /\ IsEvent(history[2].event, ACQUIRE_FENCE, 1)
  /\ Len(calls) = 1 /\ calls[1].op = "End" /\ calls[1].track_id = GpuTrack(1)
  /\ calls[1].id # 0
  /\ queue_map_ = EmptyMap
  /\ last_acquired_[1] = history[2].timestamp

\* the greatest of a non-empty set of positions
LastOf(set) == CHOOSE i \in set : \A j \in set : j <= i

\* the n-th event is a buffer event with a bufferId and the type PresentFence
IsPresentFence(n) ==
  /\ history[n].event.has_buffer_event /\ history[n].event.has_buffer_id
  /\ history[n].event.has_type /\ history[n].event.type = PRESENT_FENCE

\* C12: the derived latency fields are populated on a row if and only if the
\* row's event is a PresentFence (and on no interval); where populated,
\* queueToAcquire is >= 0, and acquireToLatch and latchToPresent hold the plain
\* differences latch - acquire and ts - latch, whatever their sign.
C12_LatenciesOnlyOnPresent ==
  /\ \A i \in 1 .. Len(slice_table) :
       /\ slice_table[i].kind = "row" =>
            (slice_table[i].has_latencies <=> IsPresentFence(slice_table[i].event_no))
       /\ slice_table[i].kind = "interval" => ~ slice_table[i].has_latencies
       /\ ~ slice_table[i].has_latencies =>
            /\ slice_table[i].queue_to_acquire_time = 0
            /\ slice_table[i].acquire_to_latch_time = 0
            /\ slice_table[i].latch_to_present_time = 0
  /\ \A n \in 1 .. Len(history) : \A b \in Buffers :
       IsEvent(history[n].event, PRESENT_FENCE, b) =>
         /\ HasRow(n)
         /\ RowOf(n).queue_to_acquire_time >= 0
         /\ RowOf(n).acquire_to_latch_time =
              LastSeen(b, LATCH, n - 1) - LastSeen(b, ACQUIRE_FENCE, n - 1)
         /\ RowOf(n).latch_to_present_time =
              history[n].timestamp - LastSeen(b, LATCH, n - 1)

\* C12 witness: AcquireFence at 200, Latch at 50, PresentFence at 10 of
\* buffer 2, then a Queue: the PresentFence row holds acquireToLatch = -150 and
\* latchToPresent = -40, the Queue row holds no latency.
C12_Witness ==
  /\ Len(history) = 4
  /\ IsEvent(history[3].event, PRESENT_FENCE, 2)
  /\ IsEvent(history[4].event, QUEUE, 2)
  /\ RowOf(3).has_latencies
  /\ RowOf(3).queue_to_acquire_time = 200
  /\ RowOf(3).acquire_to_latch_time = -150
  /\ RowOf(3).latch_to_present_time = -40
  /\ ~ RowOf(4).has_latencies

\* the first 10 characters of a layer name (all of it when it is shorter)
First10(name) ==
  [ k \in 1 .. (IF Len(name) < 10 THEN Len(name) ELSE 10) |-> name[k] ]

\* the Display interval of every PresentFence processed so far is on the track
\* named "Display_" + the first 10 characters of the event's layer name, two
\* PresentFences whose distinct layer names share their first 10 characters
\* are on the same track, and two whose layer names differ within the first
\* 10 characters are on different tracks
DisplayTracksByPrefix ==
  \E track \in { [ i \in { n \in 1 .. Len(history) : IsPresentFence(n) /\ HasInterval(n) }
                     |-> IntervalOf(i).track_id ] } :
    /\ \A i \in 1 .. Len(history) : IsPresentFence(i) => i \in DOMAIN track
    /\ \A i \in DOMAIN track :
         /\ tracks[track[i]] =
              << "D", "i", "s", "p", "l", "a", "y", "_" >> \o First10(history[i].event.layer_name)
         /\ \A j \in DOMAIN track :
              /\ ( /\ history[i].event.layer_name # history[j].event.layer_name
                   /\ First10(history[i].event.layer_name) = First10(history[j].event.layer_name) )
                 => track[i] = track[j]
              /\ First10(history[i].event.layer_name) # First10(history[j].event.layer_name)
                 => track[i] # track[j]

\* C13: after every step, the Display interval of every PresentFence is begun
\* on the track named "Display_" + the first 10 characters of the event's
\* layer name; hence two PresentFences whose distinct layer names share their
\* first 10 characters use the same track, and two whose layer names differ
\* within the first 10 characters use different tracks.
C13_DisplayTrackAliasing == [][DisplayTracksByPrefix']_vars

\* C13 witness: PresentFences of buffer 1 for Layer_AAAAAAAAAA1,
\* Layer_AAAAAAAAAA2 and Layer_B: the first two share the track
\* "Display_Layer_AAAA", the third is on another track.
C13_Witness ==
  /\ Len(history) = 3
  /\ \A i \in 1 .. 3 : IsPresentFence(i)
  /\ history[1].event.layer_name = Layer_AAAAAAAAAA1
  /\ history[2].event.layer_name = Layer_AAAAAAAAAA2
  /\ history[3].event.layer_name = Layer_B
  /\ IntervalOf(1).track_id = IntervalOf(2).track_id
  /\ IntervalOf(3).track_id # IntervalOf(1).track_id
  /\ tracks[IntervalOf(1).track_id] =
       << "D", "i", "s", "p", "l", "a", "y", "_", "L", "a", "y", "e", "r", "_", "A", "A", "A", "A" >>
  /\ Len(tracks) = 3

\* the interval with this id is begun and not yet ended
IsOpen(id) ==
  \E k \in 1 .. Len(stacks[slice_table[id].track_id]) :
    stacks[slice_table[id].track_id][k] = id

\* the frame number of an event, 0 when it carries none
FrameNumberOf(e) == IF e.has_frame_number THEN e.frame_number ELSE 0

\* the name an interval gets from the event that begins it
OpeningName(n) ==
  IF FrameNumberOf(history[n].event) # 0
  THEN AppendUnsignedInt(FrameNumberOf(history[n].event))
  ELSE AppendInt(history[n].timestamp)

\* the type of the n-th event when it is a buffer event with a bufferId and a
\* type, and -1 when it is not
TypeOfEvent(n) ==
  IF /\ history[n].event.has_buffer_event /\ history[n].event.has_buffer_id
     /\ history[n].event.has_type
  THEN history[n].event.type
  ELSE -1

\* the track is the APP_ track of some buffer
IsAppTrack(track) ==
  /\ Len(tracks[track]) >= 4
  /\ SubSeq(tracks[track], 1, 4) = << "A", "P", "P", "_" >>

\* every interval is begun by a Dequeue, Queue, Latch or PresentFence, starts
\* at that event's timestamp and is the only one that event began; every
\* Dequeue, Latch and PresentFence with a bufferId began one; an interval that
\* is open, or on a GPU, SF or Display track, has the name and the frame
\* number that its opening event gives it
IntervalsNamedByOpeningEvent ==
  \E intervals \in { { id \in 1 .. Len(slice_table) : slice_table[id].kind = "interval" } } :
    \E openers \in { { slice_table[id].event_no : id \in intervals } } :
      /\ openers \subseteq 1 .. Len(history)
      /\ Cardinality(openers) = Cardinality(intervals)
      /\ \A n \in 1 .. Len(history) :
           /\ n \in openers => TypeOfEvent(n) \in { DEQUEUE, QUEUE, LATCH, PRESENT_FENCE }
           /\ TypeOfEvent(n) \in { DEQUEUE, LATCH, PRESENT_FENCE } => n \in openers
      /\ \A id \in intervals :
           \E slice \in { slice_table[id] } :
             /\ slice.ts = history[slice.event_no].timestamp
             /\ (IsOpen(id) \/ ~ IsAppTrack(slice.track_id)) =>
                  /\ slice.name = OpeningName(slice.event_no)
                  /\ slice.frame_number = FrameNumberOf(history[slice.event_no].event)

\* C14: after every step, every interval is begun by a Dequeue, Queue, Latch
\* or PresentFence and starts at that event's timestamp; every Dequeue, Latch
\* and PresentFence with a bufferId begins exactly one; while the interval is
\* open, and for good on the GPU, SF and Display tracks whose intervals are
\* never renamed, its name is the decimal frame number of the opening event
\* when that is non-zero and the decimal timestamp of the opening event
\* otherwise, and its frameNumber is the event's frame number (0 if absent).
C14_IntervalNaming == [][IntervalsNamedByOpeningEvent']_vars

\* C14 witness: Dequeue of buffer 1 without frame number at 10, Latch of
\* buffer 2 with frame number 8 at 50, PresentFence of buffer 1 without frame
\* number at 200: the intervals are named "10", "8" and "200".
C14_Witness ==
  /\ Len(history) = 3
  /\ DequeueNoFrame(1, 1)
  /\ IsEvent(history[2].event, LATCH, 2) /\ history[2].event.has_frame_number
  /\ IsEvent(history[3].event, PRESENT_FENCE, 1) /\ ~ history[3].event.has_frame_number
  /\ IntervalOf(1).name = << "1", "0" >> /\ IntervalOf(1).ts = 10
  /\ IntervalOf(2).name = << "8" >> /\ IntervalOf(2).frame_number = 8
  /\ IntervalOf(3).name = << "2", "0", "0" >> /\ IntervalOf(3).frame_number = 0

\* the Queues of buffer b processed after the n-th event and before the next
\* Dequeue of b
QueuesAfter(n, b) ==
  { q \in (n + 1) .. Len(history) :
      /\ IsEvent(history[q].event, QUEUE, b)
      /\ \A k \in (n + 1) .. (q - 1) : ~ IsEvent(history[k].event, DEQUEUE, b) }

\* the row of every Dequeue of a buffer holds the frame number of the last
\* Queue of that buffer processed after it and before the buffer's next
\* Dequeue, and its own frame number when there is no such Queue
DequeueRowsFollowQueues ==
  \A n \in 1 .. Len(history) :
    TypeOfEvent(n) = DEQUEUE =>
      \E queues \in { QueuesAfter(n, history[n].event.buffer_id) } :
        /\ HasRow(n)
        /\ RowOf(n).frame_number =
             IF queues = {}
             THEN FrameNumberOf(history[n].event)
             ELSE FrameNumberOf(history[LastOf(queues)].event)

\* C15: after every step, the row of every Dequeue of b holds the frame number
\* of the last Queue of b processed after it and before the next Dequeue of
\* b, and its own frame number when there is no such Queue; so the row of the
\* most recent Dequeue of b follows the most recent Queue of b after it, and
\* Queues of other buffers never change it.
C15_DequeueRowPatched == [][DequeueRowsFollowQueues']_vars

\* C15 witness: Dequeue of buffer 1 with frame number 7, a Dequeue of buffer 1
\* without frame number, then a Queue of buffer 1 with frame number 8: the
\* second row holds 8, the first still 7.
C15_Witness ==
  /\ Len(history) = 3
  /\ IsEvent(history[1].event, DEQUEUE, 1) /\ history[1].event.has_frame_number
  /\ DequeueNoFrame(2, 1)
  /\ QueueWithFrame(3, 1)
  /\ RowOf(1).frame_number = 7
  /\ RowOf(2).frame_number = 8
  /\ dequeue_slice_ids_[1] = RowOf(2).id

\* the types that the phase state machine has no case for
NoPhaseTypes ==
  { UNSPECIFIED, POST, HWC_COMPOSITION_QUEUED, FALLBACK_COMPOSITION,
    RELEASE_FENCE, MODIFY, DETACH, ATTACH, CANCEL }

\* C16: an event of a type other than Dequeue, Queue, AcquireFence, Latch and
\* PresentFence issues no begin and no end call and leaves the four
\* open-interval tables, the open intervals and both guard timestamps
\* unchanged, while it emits exactly one row, named after its type, and sets
\* the last-seen entry of its own (bufferId, type) to its timestamp.
C16_OtherTypesNoOpStep ==
  \A b \in Buffers : \A t \in NoPhaseTypes :
    Parses(t, b)
      => /\ calls' = << >>
         /\ OpenTables' = OpenTables
         /\ last_dequeued_' = last_dequeued_ /\ last_acquired_' = last_acquired_
         /\ \A i \in 1 .. Len(tracks) :
              /\ stacks'[i] = stacks[i]
              /\ begin_calls'[i] = begin_calls[i] /\ end_calls'[i] = end_calls[i]
         /\ \A i \in (Len(tracks) + 1) .. Len(tracks') : stacks'[i] = << >>
         /\ Len(slice_table') = Len(slice_table) + 1
         /\ SubSeq(slice_table', 1, Len(slice_table)) = slice_table
         /\ slice_table'[Len(slice_table')].kind = "row"
         /\ slice_table'[Len(slice_table')].ts = NewTimestamp
         /\ slice_table'[Len(slice_table')].name = event_type_name_ids_[t + 1]
         /\ graphics_frame_stats_map_' =
              [ graphics_frame_stats_map_ EXCEPT ![b][t] = NewTimestamp ]
         /\ parser_errors' = parser_errors
         /\ ret' = TRUE

C16_OtherTypesNoOp == [][C16_OtherTypesNoOpStep]_vars

\* C16 witness: Dequeue then Queue of buffer 1, then a Post of buffer 1 at 200:
\* the Post made no call, the GPU interval is still tracked and open, the
\* last row is named "Post" and the last-seen entry of (1, Post) is 200.
C16_Witness ==
  /\ Len(history) = 3
  /\ IsEvent(history[1].event, DEQUEUE, 1)
  /\ IsEvent(history[2].event, QUEUE, 1)
  /\ IsEvent(history[3].event, POST, 1)
  /\ calls = << >>
  /\ 1 \in DOMAIN queue_map_ /\ Len(OpenOn(GpuTrack(1))) = 1
  /\ slice_table[Len(slice_table)].name = << "Post" >>
  /\ graphics_frame_stats_map_[1][POST] = 200
  /\ parser_errors = 0

\* the layer of an event: its layer name, or the sentinel when it has none
LayerOf(e) == IF e.has_layer_name THEN e.layer_name ELSE << "no_layer_name" >>

\* the PresentFences for this layer among the first n events
PresentsOf(layer, n) ==
  { i \in 1 .. n : IsPresentFence(i) /\ LayerOf(history[i].event) = layer }

\* the ids of the intervals that the last event ended on Display tracks
DisplayEnds ==
  { calls[k].id : k \in { j \in 1 .. Len(calls) :
                            calls[j].op = "End" /\ IsDisplayTrack(calls[j].track_id) } }

\* C17 as claimed: the interval that a PresentFence for layer L ends on a
\* Display track is the one begun by the previous PresentFence for L, whatever
\* other layers presented in between (and none is ended when L never
\* presented before).
C17_DisplaySpansSameLayer ==
  (Len(history) > 0 /\ IsPresentFence(Len(history))) =>
    LET prev == PresentsOf(LayerOf(LastEvent), Len(history) - 1) IN
    DisplayEnds = IF prev = {} THEN {} ELSE { IntervalOf(LastOf(prev)).id }

\* the PresentFences among the first n events whose interval is on this track
PresentsOn(track, n) ==
  { i \in 1 .. n : IsPresentFence(i) /\ IntervalOf(i).track_id = track }

\* what the code does in the case of C17: a PresentFence for layer L ends, on
\* the Display track of the previous PresentFence for L, the interval most
\* recently begun on that track; this is the interval of the previous
\* PresentFence for L when no PresentFence for another layer that uses the
\* same track (a layer name with the same first 10 characters) was processed
\* in between, and the interval of that other layer otherwise.
DisplayEndsInnermostOfTrack ==
  (Len(history) > 0 /\ IsPresentFence(Len(history))) =>
    LET prev == PresentsOf(LayerOf(LastEvent), Len(history) - 1) IN
    IF prev = {} THEN DisplayEnds = {}
    ELSE LET p == LastOf(prev)
             on == PresentsOn(IntervalOf(p).track_id, Len(history) - 1)
         IN /\ DisplayEnds = { IntervalOf(LastOf(on)).id }
            /\ IntervalOf(LastOf(on)).ts + IntervalOf(LastOf(on)).dur = LastTimestamp
            /\ (\A k \in on : k > p => LayerOf(history[k].event) = LayerOf(LastEvent))
                 => LastOf(on) = p

\* C17 witness: PresentFences for Layer_AAAAAAAAAA1, Layer_B and again
\* Layer_AAAAAAAAAA1, layers on different tracks: the third ended the interval
\* of the first, the interval of Layer_B is still open.
C17_Witness ==
  /\ Len(history) = 3
  /\ \A i \in 1 .. 3 : IsPresentFence(i)
  /\ history[1].event.layer_name = Layer_AAAAAAAAAA1
  /\ history[2].event.layer_name = Layer_B
  /\ history[3].event.layer_name = Layer_AAAAAAAAAA1
  /\ DisplayEnds = { IntervalOf(1).id }
  /\ IntervalOf(1).dur = 190
  /\ IsOpen(IntervalOf(2).id)
  /\ IsOpen(IntervalOf(3).id)

\* every entry of the four tables names a track with an open interval, in the
\* state that the step being taken leads to
EntriesHaveOpenInterval ==
  /\ \A b \in DOMAIN dequeue_map_' : stacks'[dequeue_map_'[b]] # << >>
  /\ \A b \in DOMAIN queue_map_' : stacks'[queue_map_'[b]] # << >>
  /\ \A b \in DOMAIN latch_map_' : stacks'[latch_map_'[b]] # << >>
  /\ \A l \in DOMAIN display_map_' : stacks'[display_map_'[l]] # << >>

\* the end calls of the step being taken, as tracks
EndsOfStep ==
  [ k \in 1 .. Len(SelectSeq(calls', LAMBDA c : c.op = "End")) |->
      SelectSeq(calls', LAMBDA c : c.op = "End")[k].track_id ]

\* C18: whenever one of the four tables holds an entry, an interval is open on
\* the track the entry names; every EndFrameEvent call finds an open interval
\* and returns its id; an end call is issued exactly for the entries the event
\* looks up, and each such entry is erased: the App entry by a Queue or Latch,
\* the GPU entry by an AcquireFence, the SF entry by a PresentFence, and the
\* Display entry by a PresentFence, which then enters the track of its own
\* new interval under the same layer.
C18_EntryMeansOpenStep ==
  /\ EntriesHaveOpenInterval
  /\ \A k \in 1 .. Len(calls') : calls'[k].op = "End" => calls'[k].id # 0
  /\ \A b \in Buffers :
       /\ (Parses(QUEUE, b) \/ Parses(LATCH, b)) =>
            /\ EndsOfStep = IF b \in DOMAIN dequeue_map_ THEN << dequeue_map_[b] >> ELSE << >>
            /\ b \notin DOMAIN dequeue_map_'
       /\ Parses(ACQUIRE_FENCE, b) =>
            /\ EndsOfStep = IF b \in DOMAIN queue_map_ THEN << queue_map_[b] >> ELSE << >>
            /\ b \notin DOMAIN queue_map_'
       /\ Parses(PRESENT_FENCE, b) =>
            /\ EndsOfStep =
                 (IF b \in DOMAIN latch_map_ THEN << latch_map_[b] >> ELSE << >>)
                 \o (IF LayerOf(NewEvent) \in DOMAIN display_map_
                     THEN << display_map_[LayerOf(NewEvent)] >> ELSE << >>)
            /\ b \notin DOMAIN latch_map_'
            /\ stacks'[display_map_'[LayerOf(NewEvent)]]
                 [Len(stacks'[display_map_'[LayerOf(NewEvent)]])] = Len(slice_table')
       /\ Parses(DEQUEUE, b) => EndsOfStep = << >>

C18_EntryMeansOpen == [][C18_EntryMeansOpenStep]_vars

\* C18 witness: Dequeue, Latch, PresentFence of buffer 1: the Latch ended the
\* App interval, the PresentFence ended the SF interval and returned its id,
\* both entries are erased and the Display entry names a track with an open
\* interval.
C18_Witness ==
  /\ Len(history) = 3
  /\ IsEvent(history[1].event, DEQUEUE, 1)
  /\ IsEvent(history[2].event, LATCH, 1)
  /\ IsEvent(history[3].event, PRESENT_FENCE, 1)
  /\ Len(calls) = 2
  /\ calls[1].op = "End" /\ calls[1].track_id = SfTrack(1) /\ calls[1].id = IntervalOf(2).id
  /\ calls[2].op = "Begin"
  /\ dequeue_map_ = EmptyMap /\ latch_map_ = EmptyMap
  /\ DOMAIN display_map_ = { LayerOf(history[3].event) }
  /\ Len(stacks[display_map_[LayerOf(history[3].event)]]) = 1

\* the positions among the events processed so far of the events of this type
\* for buffer b, and the last of them (0 when there is none)
PositionsOf(b, type) ==
  { i \in 1 .. Len(history) : IsEvent(history[i].event, type, b) }
LastPositionOf(b, type) ==
  IF PositionsOf(b, type) = {} THEN 0 ELSE LastOf(PositionsOf(b, type))

\* the step being taken begins exactly one interval, on GPU_b at its timestamp,
\* and enters its track in the GPU table
BeginsGpu(b) ==
  /\ \E k \in 1 .. Len(calls') :
       /\ calls'[k].op = "Begin"
       /\ tracks'[calls'[k].track_id] = << "G", "P", "U", "_" >> \o AppendUnsignedInt(b)
       /\ calls'[k].ts = NewTimestamp
       /\ b \in DOMAIN queue_map_' /\ queue_map_'[b] = calls'[k].track_id
       /\ \A j \in 1 .. Len(calls') : calls'[j].op = "Begin" => j = k

\* C19 as claimed: a Queue of b begins no GPU interval only if an AcquireFence
\* of b was processed after the most recently processed Dequeue of b; with no
\* AcquireFence of b processed since the last Dequeue of b (or since the start
\* when b never saw a Dequeue) the Queue begins a GPU interval.
C19_GuardByProcessingOrderStep ==
  \A b \in Buffers :
    Parses(QUEUE, b) =>
      /\ NoBegin => LastPositionOf(b, ACQUIRE_FENCE) > LastPositionOf(b, DEQUEUE)
      /\ ~ (LastPositionOf(b, ACQUIRE_FENCE) > LastPositionOf(b, DEQUEUE)) => BeginsGpu(b)

C19_GuardByProcessingOrder == [][C19_GuardByProcessingOrderStep]_vars

\* C19 amended: a Queue of b at ts begins no GPU interval if and only if the
\* timestamp of the most recently processed AcquireFence of b is greater than
\* the timestamp of the most recently processed Dequeue of b (0 standing for
\* none) and less than ts, in whatever order the two were processed;
\* otherwise, and so whenever no AcquireFence of b was processed at all, the
\* Queue begins a GPU interval.
C19_GuardByTimestampStep ==
  \A b \in Buffers :
    Parses(QUEUE, b) =>
      LET acquired == LastSeen(b, ACQUIRE_FENCE, Len(history))
          dequeued == LastSeen(b, DEQUEUE, Len(history))
      IN /\ NoBegin <=> (acquired > dequeued /\ acquired < NewTimestamp)
         /\ ~ NoBegin => BeginsGpu(b)
         /\ PositionsOf(b, ACQUIRE_FENCE) = {} => BeginsGpu(b)

C19_GuardByTimestamp == [][C19_GuardByTimestampStep]_vars

\* C19 witness: AcquireFence at 50, then Dequeue at 10, then Queue at 200 of
\* buffer 2: no AcquireFence was processed after the Dequeue, and still the
\* Queue began no GPU interval.
C19_Witness ==
  /\ Len(history) = 3
  /\ IsEvent(history[1].event, ACQUIRE_FENCE, 2) /\ history[1].timestamp = 50
  /\ IsEvent(history[2].event, DEQUEUE, 2) /\ history[2].timestamp = 10
  /\ IsEvent(history[3].event, QUEUE, 2) /\ history[3].timestamp = 200
  /\ last_acquired_[2] = 50 /\ last_dequeued_[2] = 10
  /\ ~ HasInterval(3)
  /\ 2 \notin DOMAIN queue_map_

\* the names of the APP_, GPU_ and SF_ tracks of buffer b
PhaseTrackNames(b) ==
  { << "A", "P", "P", "_" >> \o AppendUnsignedInt(b),
    << "G", "P", "U", "_" >> \o AppendUnsignedInt(b),
    << "S", "F", "_" >> \o AppendUnsignedInt(b) }

\* the entry of key k in a table, as a set with at most one track
EntryOf(map, k) == IF k \in DOMAIN map THEN { map[k] } ELSE {}

\* C20: an event for buffer b leaves the per-buffer state of every other
\* buffer c unchanged: its last-seen timestamps, its App, GPU and SF entries,
\* its guard timestamps, its remembered Dequeue row (and that row), and the
\* open intervals of its APP_, GPU_ and SF_ tracks, on which no begin or end
\* call is issued.
C20_OtherBuffersUntouchedStep ==
  \A b \in Buffers :
    (history' # history /\ NewEvent.has_buffer_event /\ NewEvent.has_buffer_id
       /\ NewEvent.buffer_id = b)
    => \A c \in Buffers \ { b } :
         /\ graphics_frame_stats_map_'[c] = graphics_frame_stats_map_[c]
         /\ EntryOf(dequeue_map_', c) = EntryOf(dequeue_map_, c)
         /\ EntryOf(queue_map_', c) = EntryOf(queue_map_, c)
         /\ EntryOf(latch_map_', c) = EntryOf(latch_map_, c)
         /\ last_dequeued_'[c] = last_dequeued_[c]
         /\ last_acquired_'[c] = last_acquired_[c]
         /\ EntryOf(dequeue_slice_ids_', c) = EntryOf(dequeue_slice_ids_, c)
         /\ c \in DOMAIN dequeue_slice_ids_ =>
              slice_table'[dequeue_slice_ids_[c]] = slice_table[dequeue_slice_ids_[c]]
         /\ \A k \in 1 .. Len(calls') :
              tracks'[calls'[k].track_id] \notin PhaseTrackNames(c)
         /\ \A i \in 1 .. Len(tracks) :
              tracks[i] \in PhaseTrackNames(c) =>
                /\ stacks'[i] = stacks[i]
                /\ \A k \in 1 .. Len(stacks[i]) :
                     slice_table'[stacks[i][k]] = slice_table[stacks[i][k]]

C20_OtherBuffersUntouched == [][C20_OtherBuffersUntouchedStep]_vars

\* C20 witness: Dequeue and PresentFence of buffer 1, then a PresentFence of
\* buffer 2, none with a layer name: the event of buffer 2 ended the Display
\* interval that buffer 1 began, and left the App interval, the guard
\* timestamp and the remembered row of buffer 1 as they were.
C20_Witness ==
  /\ Len(history) = 3
  /\ IsEvent(history[1].event, DEQUEUE, 1)
  /\ IsEvent(history[2].event, PRESENT_FENCE, 1) /\ ~ history[2].event.has_layer_name
  /\ IsEvent(history[3].event, PRESENT_FENCE, 2) /\ ~ history[3].event.has_layer_name
  /\ DisplayEnds = { IntervalOf(2).id }
  /\ IntervalOf(2).dur = 150
  /\ 1 \in DOMAIN dequeue_map_ /\ IsOpen(IntervalOf(1).id)
  /\ last_dequeued_[1] = 10
  /\ dequeue_slice_ids_[1] = RowOf(1).id
  /\ graphics_frame_stats_map_[1][PRESENT_FENCE] = 50
  /\ graphics_frame_stats_map_[2][PRESENT_FENCE] = 200

====
